---- MODULE Spec2Model ----
(***************************************************************************)
(* State-machine model of DrawingApp (src/drawing_app.py): the tkinter     *)
(* drawing tool that mirrors every stroke into a display canvas and a PIL  *)
(* backing image.  One action per event handler; a handler runs to its end *)
(* (or to the exception that aborts it) before the next event is served.   *)
(*                                                                         *)
(* Python's None is the empty tuple, and a value v that may be None is     *)
(* carried as <<v>>.  Colour names, hex colours and file paths are strings.*)
(* The backing image and the canvas are observed through the window of     *)
(* pixels the pointer visits.                                              *)
(***************************************************************************)
EXTENDS Integers, Sequences, FiniteSets, TLC

VARIABLES
    width, height,        \* self.width, self.height
    bg_colour,            \* self.bg_colour
    image,                \* self.image
    draw,                 \* self.draw: which image it draws into
    canvas,               \* self.canvas
    last_x, last_y,       \* self.last_x, self.last_y
    pen_color, last_color,\* self.pen_color, self.last_color
    mode,                 \* self.mode
    selected_brush_size,  \* self.selected_brush_size
    rubber_button,        \* state option of self.rubber_button
    last_event,           \* history: the handler served last and how it ended
    rubber_run            \* history: pen colour before the current run of rubber() calls

vars == <<width, height, bg_colour, image, draw, canvas, last_x, last_y,
          pen_color, last_color, mode, selected_brush_size, rubber_button,
          last_event, rubber_run>>

----------------------------------------------------------------------------
(* Bounds of the model and constants of the program *)

\* the pointer visits (0, 0) and (Far, Far)
Far == 1
\* the width and the height a user enters in choose_size's dialogs
NewSize == 1
\* the brush-size menu's first MaxBrush entries are the ones clicked
MaxBrush == 1
\* the size of the canvas and the image the constructor makes
InitWidth == 600
InitHeight == 400

None == <<>>
Some(v) == <<v>>
Val(o) == o[1]

\* the pointer positions the model visits, which are also the pixels it observes:
\* the origin and one point off both axes
Points == {<<0, 0>>, <<Far, Far>>}
\* what simpledialog.askinteger can hand to choose_size
AskSizes == {None, Some(NewSize)}
\* what colorchooser.askcolor(...)[1] can return
AskColors == {None, Some("#000000")}
\* what filedialog.asksaveasfilename can return
AskPaths == {"", "a", "b.png"}
\* what add_text's two dialogs can return: <<text, size>>
AskTexts == {<<None, None>>, <<Some(""), Some(1)>>, <<Some("T"), None>>,
             <<Some("T"), Some(0)>>, <<Some("T"), Some(1)>>}
brush_sizes == <<"1", "2", "5", "10">>

----------------------------------------------------------------------------
(* Python values *)

\* bool(o) for an int or None
TruthyInt(o) == o # None /\ Val(o) # 0
\* bool(o) for a str or None
TruthyStr(o) == o # None /\ Val(o) # ""

\* str.endswith
endswith(s, suffix) ==
    /\ Len(s) >= Len(suffix)
    /\ SubSeq(s, Len(s) - Len(suffix) + 1, Len(s)) = suffix

\* int(s) for the decimal strings of the brush-size menu
DecDigits == <<"0", "1", "2", "3", "4", "5", "6", "7", "8", "9">>
DigitVal(c) == (CHOOSE i \in 1..10 : DecDigits[i] = c) - 1
RECURSIVE int(_)
int(s) == IF Len(s) = 0 THEN 0
          ELSE 10 * int(SubSeq(s, 1, Len(s) - 1)) + DigitVal(SubSeq(s, Len(s), Len(s)))

HexDigits == <<"0", "1", "2", "3", "4", "5", "6", "7", "8", "9", "a", "b", "c", "d", "e", "f">>
\* '{:02d}'.format(n): the decimal digits where format02x gives the hexadecimal ones
format02d(n) ==
    IF n < 100 THEN DecDigits[(n \div 10) + 1] \o DecDigits[(n % 10) + 1]
    ELSE DecDigits[(n \div 100) + 1] \o DecDigits[((n \div 10) % 10) + 1] \o DecDigits[(n % 10) + 1]
\* '{:02x}'.format(n) for 0 <= n <= 255
format02x(n) == HexDigits[(n \div 16) + 1] \o HexDigits[(n % 16) + 1]
\* '#{:02x}{:02x}{:02x}'.format(*rgb): positional arguments beyond the third are ignored
format_rgb(rgb) == "#" \o format02x(rgb[1]) \o format02x(rgb[2]) \o format02x(rgb[3])

HexVal(c) == (CHOOSE i \in 1..16 : HexDigits[i] = c) - 1
int16(s) == 16 * HexVal(SubSeq(s, 1, 1)) + HexVal(SubSeq(s, 2, 2))
\* PIL.ImageColor.getrgb (and Tk's colour lookup) for the colour strings in use
getrgb(c) ==
    IF c = "white" THEN <<255, 255, 255>>
    ELSE IF c = "black" THEN <<0, 0, 0>>
    ELSE <<int16(SubSeq(c, 2, 3)), int16(SubSeq(c, 4, 5)), int16(SubSeq(c, 6, 7))>>

----------------------------------------------------------------------------
(* PIL images, observed through the window *)

Window(size) == {p \in Points : p[1] < size[1] /\ p[2] < size[2]}

\* PIL.Image.new(mode, size, color) with color a tuple of the mode's bands
Image_new(im_mode, size, color) ==
    [mode |-> im_mode, size |-> size, px |-> [p \in Window(size) |-> color]]

\* a colour string as a pixel of an image of the given mode (alpha 255 where there is one)
Ink(im_mode, c) == IF im_mode = "RGBA" THEN getrgb(c) \o <<255>> ELSE getrgb(c)
\* ImageDraw's ink for fill=None: the default ink, all bits set
DefaultInk(im_mode) == IF im_mode = "RGBA" THEN <<255, 255, 255, 255>> ELSE <<255, 255, 255>>
PilInk(im_mode, fill) == IF fill = None THEN DefaultInk(im_mode) ELSE Ink(im_mode, Val(fill))
\* Tk's fill: an option given as None is left out, and a line's default fill is black
TkInk(fill) == IF fill = None THEN getrgb("black") ELSE getrgb(Val(fill))

Abs(n) == IF n < 0 THEN -n ELSE n
Max(a, b) == IF a >= b THEN a ELSE b
Min(a, b) == IF a <= b THEN a ELSE b

\* the pixels of the window a segment of width w from (x0, y0) to (x1, y1) covers
Covered(x0, y0, x1, y1, w) ==
    LET dx == x1 - x0
        dy == y1 - y0
        e == IF w > 1 THEN w \div 2 ELSE 0
    IN  {p \in Points :
            /\ Min(x0, x1) - e <= p[1] /\ p[1] <= Max(x0, x1) + e
            /\ Min(y0, y1) - e <= p[2] /\ p[2] <= Max(y0, y1) + e
            /\ 2 * Abs((p[1] - x0) * dy - (p[2] - y0) * dx)
                   <= Max(Abs(dx), Abs(dy)) * Max(w, 1)}

\* ImageDraw.line([x0, y0, x1, y1], fill=fill, width=w) on im
draw_line(im, x0, y0, x1, y1, fill, w) ==
    [im EXCEPT !.px = [p \in DOMAIN im.px |->
        IF p \in Covered(x0, y0, x1, y1, w) THEN PilInk(im.mode, fill) ELSE im.px[p]]]

\* the footprint of a rendered text anchored at (x, y): its anchor pixel
Glyphs(x, y) == {<<x, y>>}

\* ImageDraw.text((x, y), text, fill=fill, font=font) on im
draw_text(im, x, y, fill) ==
    [im EXCEPT !.px = [p \in DOMAIN im.px |->
        IF p \in Glyphs(x, y) THEN PilInk(im.mode, fill) ELSE im.px[p]]]

\* Image.alpha_composite(im1, im2) of two RGBA images, for source alphas 0 and 255
alpha_composite(im1, im2) ==
    [im1 EXCEPT !.px = [p \in DOMAIN im1.px |->
        IF im2.px[p][4] = 0 THEN im1.px[p] ELSE im2.px[p]]]

\* im.convert("RGB") at pixel p
RGBAt(im, p) == SubSeq(im.px[p], 1, 3)

\* the object self.draw draws into: self.image, or an image self.image no longer names
ImageDraw_Draw == "self.image"
Stale == "stale"

----------------------------------------------------------------------------
(* The Tk canvas: its background option and the rendering of its items *)

\* tk.Canvas(root, width=w, height=h, bg=bg): no items, no <Button-1> binding
Canvas_new(w, h, bg) ==
    [width |-> w, height |-> h, background |-> bg,
     px |-> [p \in Window(<<w, h>>) |-> None], button1 |-> None]

\* canvas.create_line(x0, y0, x1, y1, width=w, fill=fill, ...)
create_line(cv, x0, y0, x1, y1, fill, w) ==
    [cv EXCEPT !.px = [p \in DOMAIN cv.px |->
        IF p \in Covered(x0, y0, x1, y1, w) THEN TkInk(fill) ELSE cv.px[p]]]

\* canvas.create_image(0, 0, anchor="nw", image=PhotoImage(im.convert("RGB")))
create_image(cv, im) ==
    [cv EXCEPT !.px = [p \in DOMAIN cv.px |->
        IF p \in DOMAIN im.px THEN RGBAt(im, p) ELSE cv.px[p]]]

\* canvas.delete('all')
delete_all(cv) == [cv EXCEPT !.px = [p \in DOMAIN cv.px |-> None]]

----------------------------------------------------------------------------
(* Initial state: DrawingApp.__init__ followed by setup_ui and binds *)

\* how the handler served last ended: its name, the exception that aborted it
\* ("none" when it returned), and the file it wrote
Event(op, exc) == [op |-> op, exc |-> exc, saved |-> None]

Init ==
    /\ width = Some(InitWidth)
    /\ height = Some(InitHeight)
    /\ bg_colour = Some("white")
    /\ image = Image_new("RGBA", <<InitWidth, InitHeight>>, <<255, 255, 255, 255>>)
    /\ draw = ImageDraw_Draw
    /\ last_x = None
    /\ last_y = None
    /\ pen_color = Some("black")
    /\ last_color = Some("black")
    /\ mode = "draw"
    /\ selected_brush_size = brush_sizes[1]
    /\ rubber_button = "disabled"
    /\ canvas = Canvas_new(InitWidth, InitHeight, "white")
    /\ last_event = Event("__init__", "none")
    /\ rubber_run = None

\* No drag is under way.  A button's command and a <Button-1> press need the
\* pointer's button up, and the release that ends a drag reaches the canvas first
\* and runs reset; the model serves the right click and the two key bindings
\* between drags as well.
NoDrag == last_x = None /\ last_y = None

----------------------------------------------------------------------------
(* The handlers *)

\* paint(event), bound to <B1-Motion>
paint(x, y) ==
    LET w == int(selected_brush_size) IN
    /\ rubber_button' = "normal"
    /\ IF TruthyInt(last_x) /\ TruthyInt(last_y)
       THEN /\ canvas' = create_line(canvas, Val(last_x), Val(last_y), x, y, pen_color, w)
            /\ image' = IF draw = ImageDraw_Draw
                        THEN draw_line(image, Val(last_x), Val(last_y), x, y, pen_color, w)
                        ELSE image
       ELSE UNCHANGED <<canvas, image>>
    /\ last_x' = Some(x)
    /\ last_y' = Some(y)
    /\ last_event' = Event("paint", "none")
    /\ rubber_run' = None
    /\ UNCHANGED <<width, height, bg_colour, draw, pen_color, last_color, mode,
                   selected_brush_size>>

\* the body of brush(): what it assigns
brush_body ==
    /\ pen_color' = last_color
    /\ mode' = "draw"

\* brush(), the command of the brush button
brush ==
    /\ NoDrag
    /\ brush_body
    /\ last_event' = Event("brush", "none")
    /\ rubber_run' = None
    /\ UNCHANGED <<width, height, bg_colour, image, draw, canvas, last_x, last_y,
                   last_color, selected_brush_size, rubber_button>>

\* a radiobutton of the brush-size menu: sets the variable, then runs brush()
brush_menu(size) ==
    /\ NoDrag
    /\ selected_brush_size' = size
    /\ brush_body
    /\ last_event' = Event("brush_menu", "none")
    /\ rubber_run' = None
    /\ UNCHANGED <<width, height, bg_colour, image, draw, canvas, last_x, last_y,
                   last_color, rubber_button>>

\* rubber(), the command of the rubber button (disabled until the first paint)
rubber ==
    /\ NoDrag
    /\ rubber_button = "normal"
    /\ last_color' = pen_color
    /\ pen_color' = bg_colour
    /\ mode' = "rubber"
    /\ last_event' = Event("rubber", "none")
    /\ rubber_run' = IF rubber_run = None THEN Some(pen_color) ELSE rubber_run
    /\ UNCHANGED <<width, height, bg_colour, image, draw, canvas, last_x, last_y,
                   selected_brush_size, rubber_button>>

\* pipette(event), bound to <Button-3>; getpixel outside the image raises IndexError
pipette(x, y) ==
    /\ NoDrag
    /\ IF x < image.size[1] /\ y < image.size[2]
       THEN /\ pen_color' = Some(format_rgb(image.px[<<x, y>>]))
            /\ mode' = "draw"
            /\ last_event' = Event("pipette", "none")
       ELSE /\ UNCHANGED <<pen_color, mode>>
            /\ last_event' = Event("pipette", "IndexError")
    /\ rubber_run' = None
    /\ UNCHANGED <<width, height, bg_colour, image, draw, canvas, last_x, last_y,
                   last_color, selected_brush_size, rubber_button>>

\* reset(event), bound to <ButtonRelease-1>
reset ==
    /\ last_x' = None
    /\ last_y' = None
    /\ last_event' = Event("reset", "none")
    /\ rubber_run' = None
    /\ UNCHANGED <<width, height, bg_colour, image, draw, canvas, pen_color, last_color,
                   mode, selected_brush_size, rubber_button>>

\* clear_canvas(), the command of the clear button; Image.new raises TypeError
\* on a size that holds None
clear_canvas ==
    /\ NoDrag
    /\ IF width # None /\ height # None
       THEN /\ canvas' = [delete_all(canvas) EXCEPT !.background = "white"]
            /\ image' = Image_new("RGB", <<Val(width), Val(height)>>, Ink("RGB", "white"))
            /\ draw' = ImageDraw_Draw
            /\ bg_colour' = Some("white")
            /\ brush_body
            /\ last_event' = Event("clear_canvas", "none")
       ELSE /\ canvas' = [delete_all(canvas) EXCEPT !.background = "white"]
            /\ UNCHANGED <<image, draw, bg_colour, pen_color, mode>>
            /\ last_event' = Event("clear_canvas", "TypeError")
    /\ rubber_run' = None
    /\ UNCHANGED <<width, height, last_x, last_y, last_color, selected_brush_size,
                   rubber_button>>

\* the body of choose_color(event); color is what the colour dialog returned
choose_color_body(color) ==
    /\ pen_color' = color
    /\ last_color' = color
    /\ rubber_run' = None
    /\ UNCHANGED <<width, height, bg_colour, image, draw, canvas, last_x, last_y, mode,
                   selected_brush_size, rubber_button>>

\* choose_color(event), bound to <Control-c> on the root window in every tool
\* mode (and the command of the colour button while that is enabled)
choose_color(color) ==
    /\ NoDrag
    /\ choose_color_body(color)
    /\ last_event' = Event("choose_color", "none")

\* choose_size(), the command of the resize button; w and h are what the two
\* dialogs returned
choose_size(w, h) ==
    /\ NoDrag
    /\ width' = w
    /\ height' = h
    /\ IF w # None /\ h # None
       THEN /\ image' = Image_new("RGB", <<Val(w), Val(h)>>, Ink("RGB", "white"))
            /\ draw' = ImageDraw_Draw
            /\ canvas' = Canvas_new(Val(w), Val(h), "white")
       ELSE UNCHANGED <<image, draw, canvas>>
    /\ last_event' = Event("choose_size", "none")
    /\ rubber_run' = None
    /\ UNCHANGED <<bg_colour, last_x, last_y, pen_color, last_color, mode,
                   selected_brush_size, rubber_button>>

\* background(), the command of the background button; color is what the colour
\* dialog returned
background(color) ==
    /\ NoDrag
    /\ bg_colour' = color
    /\ IF TruthyStr(color)
       THEN LET new == Image_new("RGBA", image.size, getrgb(Val(color)) \o <<255>>) IN
            /\ image' = new
            /\ draw' = ImageDraw_Draw
            /\ canvas' = create_image([canvas EXCEPT !.background = Val(color)], new)
       ELSE UNCHANGED <<image, draw, canvas>>
    /\ last_event' = Event("background", "none")
    /\ rubber_run' = None
    /\ UNCHANGED <<width, height, last_x, last_y, pen_color, last_color, mode,
                   selected_brush_size, rubber_button>>

\* add_text(), the command of the text button; text_str and text_size are what
\* the two dialogs returned
add_text(text_str, text_size) ==
    /\ NoDrag
    /\ canvas' = IF TruthyStr(text_str) /\ TruthyInt(text_size)
                 THEN [canvas EXCEPT !.button1 =
                          Some([text_str |-> Val(text_str), text_size |-> Val(text_size)])]
                 ELSE canvas
    /\ last_event' = Event("add_text", "none")
    /\ rubber_run' = None
    /\ UNCHANGED <<width, height, bg_colour, image, draw, last_x, last_y, pen_color,
                   last_color, mode, selected_brush_size, rubber_button>>

\* on_click(event), the closure add_text binds to <Button-1>; alpha_composite
\* raises ValueError unless both images are RGBA
on_click(x, y) ==
    /\ NoDrag
    /\ canvas.button1 # None
    /\ LET text_layer == Image_new("RGBA", image.size, <<255, 255, 255, 0>>)
           text_img == draw_text(text_layer, x, y, pen_color)
       IN  IF image.mode = "RGBA"
           THEN LET new == alpha_composite(image, text_img) IN
                /\ image' = new
                /\ draw' = Stale
                /\ canvas' = [create_image(canvas, new) EXCEPT !.button1 = None]
                /\ last_event' = Event("on_click", "none")
           ELSE /\ UNCHANGED <<image, draw, canvas>>
                /\ last_event' = Event("on_click", "ValueError")
    /\ rubber_run' = None
    /\ UNCHANGED <<width, height, bg_colour, last_x, last_y, pen_color, last_color,
                   mode, selected_brush_size, rubber_button>>

\* the chosen path as it is, where save_path appends the suffix it lacks
save_path_as_chosen(file_path) == file_path
\* the path save_image writes for a chosen path
save_path(file_path) ==
    IF ~endswith(file_path, ".png") THEN file_path \o ".png" ELSE file_path

\* save_image(event), the command of the save button and the <Control-s>
\* binding; file_path is what the file dialog returned
save_image(file_path) ==
    /\ NoDrag
    /\ last_event' = IF file_path # ""
                     THEN [Event("save_image", "none") EXCEPT !.saved =
                              Some([path |-> save_path(file_path), image |-> image])]
                     ELSE Event("save_image", "none")
    /\ rubber_run' = None
    /\ UNCHANGED <<width, height, bg_colour, image, draw, canvas, last_x, last_y,
                   pen_color, last_color, mode, selected_brush_size, rubber_button>>

----------------------------------------------------------------------------
(* The event loop serves one event at a time *)

Next ==
    \/ \E p \in Points : paint(p[1], p[2])
    \/ reset
    \/ \E p \in Points : pipette(p[1], p[2])
    \/ brush
    \/ \E i \in 1..MaxBrush : brush_menu(brush_sizes[i])
    \/ rubber
    \/ clear_canvas
    \/ \E color \in AskColors : choose_color(color)
    \/ \E w \in AskSizes, h \in AskSizes : choose_size(w, h)
    \/ \E color \in AskColors : background(color)
    \/ \E t \in AskTexts : add_text(t[1], t[2])
    \/ \E p \in Points : on_click(p[1], p[2])
    \/ \E file_path \in AskPaths : save_image(file_path)

Spec == Init /\ [][Next]_vars

----------------------------------------------------------------------------
(* The claims *)

\* the segment paint draws on a motion to (x, y): the pixels it covers
Segment(x, y) == Covered(Val(last_x), Val(last_y), x, y, int(selected_brush_size))

\* C1: every stroke segment that paint draws on the display canvas is also
\* drawn into the backing image that save_image exports (self.draw always
\* draws into the current self.image).
C1_StrokesReachBackingImage ==
    [][\A p \in Points :
        (paint(p[1], p[2]) /\ TruthyInt(last_x) /\ TruthyInt(last_y))
        => \A q \in Segment(p[1], p[2]) \cap DOMAIN image.px :
               image'.px[q] = PilInk(image.mode, pen_color)]_vars

\* C2: whenever the tool mode is 'rubber', pen_color equals bg_colour.
C2_RubberDrawsBackground == mode = "rubber" => pen_color = bg_colour

\* C3: pipette at a pixel inside the backing image sets pen_color to a string
\* that names the colour of that pixel (so that paint's next segment, on the
\* canvas and in the image, has the sampled colour) and sets the mode to
\* 'draw', for RGB and RGBA images alike, and leaves the backing image and
\* bg_colour unchanged.
C3_PipetteSamplesPixel ==
    [][\A p \in Points :
        (last_event'.op = "pipette" /\ pipette(p[1], p[2]) /\ p \in DOMAIN image.px)
        => /\ pen_color' # None
           /\ getrgb(Val(pen_color')) = RGBAt(image, p)
           /\ TkInk(pen_color') = RGBAt(image, p)
           /\ PilInk(image.mode, pen_color') = image.px[p]
           /\ mode' = "draw"
           /\ last_event'.exc = "none"
           /\ image' = image
           /\ bg_colour' = bg_colour]_vars

\* C3 witness: pipette has sampled a black pixel of an RGB backing image while
\* the brush colour on record was still 'black'.
C3_Witness ==
    /\ last_event = Event("pipette", "none")
    /\ image.mode = "RGB"
    /\ \E p \in DOMAIN image.px : image.px[p] = <<0, 0, 0>>
    /\ pen_color = Some("#000000")
    /\ last_color = Some("black")
    /\ mode = "draw"

\* C4: if the brush colour is c when the eraser is activated, then after one
\* or more rubber() calls followed by brush(), pen_color is c again.
C4_RubberBrushRoundTrip ==
    [][(brush /\ rubber_run # None) => pen_color' = Val(rubber_run)]_vars

\* C5: clear_canvas completes without error and leaves the canvas empty with a
\* white background, the backing image blank white with the dimensions of the
\* canvas, bg_colour 'white' and the mode 'draw'.
C5_ClearCanvasResetsBoth ==
    [][clear_canvas
        => /\ last_event'.exc = "none"
           /\ canvas'.background = "white"
           /\ \A p \in DOMAIN canvas'.px : canvas'.px[p] = None
           /\ image' = Image_new("RGB", <<canvas'.width, canvas'.height>>, <<255, 255, 255>>)
           /\ bg_colour' = Some("white")
           /\ mode' = "draw"]_vars

\* C6: once add_text is confirmed, the next left click at (x, y) composites the
\* text at (x, y) in the pen colour into the backing image and shows that image
\* on the canvas, without error, and removes the click binding.
C6_ClickStampsText ==
    [][\A p \in Points :
        on_click(p[1], p[2])
        => /\ last_event'.exc = "none"
           /\ p \in DOMAIN image.px => image'.px[p] = PilInk("RGBA", pen_color)
           /\ \A q \in DOMAIN canvas'.px \cap DOMAIN image'.px :
                  canvas'.px[q] = RGBAt(image', q)
           /\ canvas'.button1 = None]_vars

\* C7: save_image writes the backing image if and only if the dialog returned a
\* non-empty path; the path written ends in '.png', the suffix being appended
\* exactly when the chosen path lacks it; the backing image, pen colour,
\* background colour and tool mode are unchanged.
C7_SaveImage ==
    [][\A f \in AskPaths :
        (last_event'.op = "save_image" /\ save_image(f))
        => /\ last_event'.saved # None <=> f # ""
           /\ f # "" =>
                 LET written == Val(last_event'.saved) IN
                 /\ endswith(written.path, ".png")
                 /\ written.path = IF endswith(f, ".png") THEN f ELSE f \o ".png"
                 /\ written.image = image
           /\ UNCHANGED <<image, pen_color, bg_colour, mode>>]_vars

\* C7 witness: save_image wrote the backing image, a stroke drawn into it, to a
\* path it had to append the suffix to.
C7_Witness ==
    /\ last_event.op = "save_image"
    /\ last_event.saved # None
    /\ Val(last_event.saved).path = "a.png"
    /\ Val(last_event.saved).image = image
    /\ \E p \in DOMAIN image.px : RGBAt(image, p) = <<0, 0, 0>>

\* C8: a dialog-driven operation whose dialog is cancelled or left empty
\* (choose_color, background, choose_size, add_text, save_image) leaves
\* pen_color, last_color, bg_colour, width, height, the backing image, the
\* canvas and the tool mode unchanged.
C8_CancelIsNoOp ==
    [][(\/ choose_color(None)
        \/ background(None)
        \/ \E w \in AskSizes, h \in AskSizes : (w = None \/ h = None) /\ choose_size(w, h)
        \/ \E t \in AskTexts : (~TruthyStr(t[1]) \/ t[2] = None) /\ add_text(t[1], t[2])
        \/ save_image(""))
        => UNCHANGED <<pen_color, last_color, bg_colour, width, height, image, canvas,
                       mode>>]_vars

\* C9: within a drag, every motion event after the first draws the segment
\* from the previous pointer position (x, y), 0 <= x < width and
\* 0 <= y < height, to the current one, on the canvas and in the backing image;
\* the first motion event after a release draws nothing.
C9_EveryMotionDrawsSegment ==
    [][\A p \in Points :
        paint(p[1], p[2])
        => IF last_x = None /\ last_y = None
           THEN canvas' = canvas /\ image' = image
           ELSE (/\ last_x # None /\ last_y # None
                 /\ Val(last_x) < canvas.width /\ Val(last_y) < canvas.height)
                => \A q \in Segment(p[1], p[2]) :
                      /\ q \in DOMAIN canvas.px => canvas'.px[q] = TkInk(pen_color)
                      /\ q \in DOMAIN image.px =>
                             image'.px[q] = PilInk(image.mode, pen_color)]_vars

====
